---- MODULE Spec2Model ----
(***************************************************************************)
(* Model of hack/gateway-contract-test/main.go: the gateway/OpenAPI        *)
(* contract test.  Strings the program inspects character by character     *)
(* (paths, server URLs, backend hosts, the -override value) are sequences  *)
(* of one-character strings; strings it only passes along (spec URLs) are  *)
(* TLA+ strings.  The -verbose flag only adds progress lines to standard  *)
(* output and is left out; -config names the file ReadConfig reads.        *)
(***************************************************************************)
EXTENDS Integers, Sequences, FiniteSets, TLC

\* ------------------------------------------------------------------------
\* Bounds of the model
\* ------------------------------------------------------------------------
MaxLen == 4

MaxEndpoints == 2

\* ------------------------------------------------------------------------
\* Go string helpers (package strings), on sequences of characters
\* ------------------------------------------------------------------------
HasPrefix(s, pre) ==
  /\ Len(pre) <= Len(s)
  /\ SubSeq(s, 1, Len(pre)) = pre

HasSuffix(s, suf) ==
  /\ Len(suf) <= Len(s)
  /\ SubSeq(s, Len(s) - Len(suf) + 1, Len(s)) = suf

TrimSuffix(s, suf) ==
  IF HasSuffix(s, suf) THEN SubSeq(s, 1, Len(s) - Len(suf)) ELSE s

\* strings.Index for a one-character separator, from position i on; 0 is "absent"
RECURSIVE IndexFrom(_, _, _)
IndexFrom(s, c, i) ==
  IF i > Len(s) THEN 0
  ELSE IF s[i] = c THEN i
  ELSE IndexFrom(s, c, i + 1)

LowerLetters ==
  <<"a", "b", "c", "d", "e", "f", "g", "h", "i", "j", "k", "l", "m",
    "n", "o", "p", "q", "r", "s", "t", "u", "v", "w", "x", "y", "z">>

UpperLetters ==
  <<"A", "B", "C", "D", "E", "F", "G", "H", "I", "J", "K", "L", "M",
    "N", "O", "P", "Q", "R", "S", "T", "U", "V", "W", "X", "Y", "Z">>

ToUpperChar(c) ==
  IF \E i \in 1..Len(LowerLetters) : LowerLetters[i] = c
  THEN UpperLetters[CHOOSE i \in 1..Len(LowerLetters) : LowerLetters[i] = c]
  ELSE c

ToLowerChar(c) ==
  IF \E i \in 1..Len(UpperLetters) : UpperLetters[i] = c
  THEN LowerLetters[CHOOSE i \in 1..Len(UpperLetters) : UpperLetters[i] = c]
  ELSE c

ToUpper(s) == [i \in 1..Len(s) |-> ToUpperChar(s[i])]

ToLower(s) == [i \in 1..Len(s) |-> ToLowerChar(s[i])]

\* strings.SplitN(s, "=", 2)
SplitN2(s) ==
  LET i == IndexFrom(s, "=", 1)
  IN IF i = 0 THEN <<s>>
     ELSE <<SubSeq(s, 1, i - 1), SubSeq(s, i + 1, Len(s))>>

\* ------------------------------------------------------------------------
\* normalizePath: paramRe = \{[^}]+\} replaced, leftmost first and
\* non-overlapping, by {_}
\* ------------------------------------------------------------------------
Wildcard == <<"{", "_", "}">>

\* Last index of the match of paramRe that starts at i, or 0 when none starts
\* there: "{", then one or more characters other than "}", then "}".
ParamMatchEnd(p, i) ==
  IF /\ p[i] = "{"
     /\ i + 1 <= Len(p)
     /\ p[i + 1] # "}"
  THEN IndexFrom(p, "}", i + 2)
  ELSE 0

RECURSIVE ReplaceAllFrom(_, _)
ReplaceAllFrom(p, i) ==
  IF i > Len(p) THEN <<>>
  ELSE LET e == ParamMatchEnd(p, i)
       IN IF e > 0 THEN Wildcard \o ReplaceAllFrom(p, e + 1)
          ELSE <<p[i]>> \o ReplaceAllFrom(p, i + 1)

\* A replacement template that keeps the parameter's name: {id} -> {_id}
RECURSIVE ReplacePrefixFrom(_, _)
ReplacePrefixFrom(p, i) ==
  IF i > Len(p) THEN <<>>
  ELSE LET e == ParamMatchEnd(p, i)
       IN IF e > 0
          THEN <<"{", "_">> \o SubSeq(p, i + 1, e) \o ReplacePrefixFrom(p, e + 1)
          ELSE <<p[i]>> \o ReplacePrefixFrom(p, i + 1)

normalizePathPrefixName(p) == ReplacePrefixFrom(p, 1)

normalizePath(p) == ReplaceAllFrom(p, 1)

\* ------------------------------------------------------------------------
\* net/url as the program uses it: url.Parse and (*URL).Hostname, for URLs
\* without query, fragment, userinfo or IPv6 literal
\* ------------------------------------------------------------------------
Letters == {LowerLetters[i] : i \in 1..Len(LowerLetters)} \cup
           {UpperLetters[i] : i \in 1..Len(UpperLetters)}

Digits == {"0", "1", "2", "3", "4", "5", "6", "7", "8", "9"}

\* getScheme: index of the ":" that ends the scheme, 0 when the string has no
\* scheme, -1 when it starts with ":" (missing protocol scheme)
RECURSIVE SchemeEnd(_, _)
SchemeEnd(raw, i) ==
  IF i > Len(raw) THEN 0
  ELSE IF raw[i] \in Letters THEN SchemeEnd(raw, i + 1)
  ELSE IF raw[i] \in Digits \cup {"+", "-", "."}
       THEN IF i = 1 THEN 0 ELSE SchemeEnd(raw, i + 1)
  ELSE IF raw[i] = ":" THEN IF i = 1 THEN 0 - 1 ELSE i
  ELSE 0

RECURSIVE LastIndex(_, _, _)
LastIndex(s, c, i) ==
  IF i < 1 THEN 0
  ELSE IF s[i] = c THEN i
  ELSE LastIndex(s, c, i - 1)

\* validOptionalPort on the text after the last ":" of the authority
AllDigits(s) == \A i \in 1..Len(s) : s[i] \in Digits

\* parseAuthority/parseHost: a space is not a valid host character, and the
\* text after the last colon must be a decimal port
AuthorityOK(auth) ==
  /\ \A i \in 1..Len(auth) : auth[i] # " "
  /\ LET c == LastIndex(auth, ":", Len(auth))
     IN c = 0 \/ AllDigits(SubSeq(auth, c + 1, Len(auth)))

URL(err, scheme, host, path) ==
  [err |-> err, Scheme |-> scheme, Host |-> host, Path |-> path]

urlParse(raw) ==
  LET se     == SchemeEnd(raw, 1)
      scheme == IF se > 0 THEN SubSeq(raw, 1, se - 1) ELSE <<>>
      rest   == IF se > 0 THEN SubSeq(raw, se + 1, Len(raw)) ELSE raw
      slash1 == IndexFrom(rest, "/", 1)
      seg1   == IF slash1 = 0 THEN rest ELSE SubSeq(rest, 1, slash1 - 1)
  IN IF se < 0 THEN URL(TRUE, <<>>, <<>>, <<>>)
     ELSE IF ~HasPrefix(rest, <<"/">>)
     THEN IF scheme # <<>> THEN URL(FALSE, scheme, <<>>, <<>>)
          ELSE IF IndexFrom(seg1, ":", 1) # 0 THEN URL(TRUE, <<>>, <<>>, <<>>)
          ELSE URL(FALSE, <<>>, <<>>, rest)
     ELSE IF /\ scheme # <<>> \/ ~HasPrefix(rest, <<"/", "/", "/">>)
             /\ HasPrefix(rest, <<"/", "/">>)
     THEN LET after == SubSeq(rest, 3, Len(rest))
              slash == IndexFrom(after, "/", 1)
              auth  == IF slash = 0 THEN after ELSE SubSeq(after, 1, slash - 1)
              path  == IF slash = 0 THEN <<>> ELSE SubSeq(after, slash, Len(after))
          IN IF AuthorityOK(auth) THEN URL(FALSE, scheme, auth, path)
             ELSE URL(TRUE, <<>>, <<>>, <<>>)
     ELSE URL(FALSE, scheme, <<>>, rest)

\* (*URL).Hostname: the host without its port
Hostname(u) ==
  LET c == LastIndex(u.Host, ":", Len(u.Host))
  IN IF c = 0 THEN u.Host ELSE SubSeq(u.Host, 1, c - 1)

extractHostname(hostURL) ==
  LET u == urlParse(hostURL)
  IN IF u.err THEN hostURL ELSE Hostname(u)

\* ------------------------------------------------------------------------
\* parseSpec: base path, documented operations and documented paths
\* ------------------------------------------------------------------------
httpMethods ==
  { <<"g", "e", "t">>, <<"p", "o", "s", "t">>, <<"p", "u", "t">>,
    <<"p", "a", "t", "c", "h">>, <<"d", "e", "l", "e", "t", "e">>,
    <<"h", "e", "a", "d">>, <<"o", "p", "t", "i", "o", "n", "s">>,
    <<"t", "r", "a", "c", "e">> }

basePathOf(spec) ==
  IF Len(spec.Servers) > 0
  THEN LET serverURL == spec.Servers[1].URL
       IN IF \/ HasPrefix(serverURL, <<"h", "t", "t", "p", ":", "/", "/">>)
             \/ HasPrefix(serverURL, <<"h", "t", "t", "p", "s", ":", "/", "/">>)
          THEN LET u == urlParse(serverURL)
               IN IF ~u.err THEN TrimSuffix(u.Path, <<"/">>) ELSE <<>>
          ELSE TrimSuffix(serverURL, <<"/">>)
  ELSE <<>>

Key(method, normalizedPath) == method \o <<" ">> \o normalizedPath

SpecResult(err, ops, allPaths, opCount) ==
  [err |-> err, ops |-> ops, allPaths |-> allPaths, opCount |-> opCount]

\* The loop over the recognised methods of every path; with the base path left out
parseSpecNoBase(data) ==
  IF ~data.valid THEN SpecResult(TRUE, {}, {}, 0)
  ELSE LET spec == data.doc
       IN SpecResult(
            FALSE,
            { Key(ToUpper(m[2]), normalizePath(m[1])) :
                m \in { pm \in UNION { {<<path, method>> : method \in spec.Paths[path]} :
                                       path \in DOMAIN spec.Paths } :
                        ToLower(pm[2]) \in httpMethods } },
            { normalizePath(path) : path \in DOMAIN spec.Paths },
            Cardinality({ pm \in UNION { {<<path, method>> : method \in spec.Paths[path]} :
                                         path \in DOMAIN spec.Paths } :
                          ToLower(pm[2]) \in httpMethods }))

\* allPaths built from the paths that have a recognised method only
parseSpecOpPaths(data) ==
  IF ~data.valid THEN SpecResult(TRUE, {}, {}, 0)
  ELSE LET spec     == data.doc
           basePath == basePathOf(spec)
           pairs    == { pm \in UNION { {<<path, method>> : method \in spec.Paths[path]} :
                                        path \in DOMAIN spec.Paths } :
                         ToLower(pm[2]) \in httpMethods }
       IN SpecResult(
            FALSE,
            { Key(ToUpper(pm[2]), normalizePath(basePath \o pm[1])) : pm \in pairs },
            { normalizePath(basePath \o pm[1]) : pm \in pairs },
            Cardinality(pairs))

parseSpec(data) ==
  IF ~data.valid THEN SpecResult(TRUE, {}, {}, 0)
  ELSE LET spec     == data.doc
           basePath == basePathOf(spec)
           pairs    == { pm \in UNION { {<<path, method>> : method \in spec.Paths[path]} :
                                        path \in DOMAIN spec.Paths } :
                         ToLower(pm[2]) \in httpMethods }
       IN SpecResult(
            FALSE,
            { Key(ToUpper(pm[2]), normalizePath(basePath \o pm[1])) : pm \in pairs },
            { normalizePath(basePath \o path) : path \in DOMAIN spec.Paths },
            Cardinality(pairs))

\* downloadAndParseSpec / loadAndParseSpec: the transport or the file read
\* fails, or the bytes go to parseSpec
fetchAndParseSpec(src) ==
  IF ~src.ok THEN SpecResult(TRUE, {}, {}, 0) ELSE parseSpec(src)

\* ------------------------------------------------------------------------
\* Inputs: strings
\* ------------------------------------------------------------------------
HostA == <<"a">>

HostB == <<"b">>

NoHost == <<>>

HttpsA == <<"h", "t", "t", "p", "s", ":", "/", "/", "a">>

HttpsB == <<"h", "t", "t", "p", "s", ":", "/", "/", "b">>

HttpsAPort == <<"h", "t", "t", "p", "s", ":", "/", "/", "a", ":", "8", "/">>

\* no scheme: url.Parse gives it no host
BareB == <<"b">>

\* a space in the authority: url.Parse fails
BadHost == <<"h", "t", "t", "p", ":", "/", "/", "a", " ">>

PathU == <<"/", "u", "/", "{", "i", "}">>

PathVU == <<"/", "v", "/", "u", "/", "{", "i", "}">>

PathHealth == <<"/", "h", "e", "a", "l", "t", "h">>

PathUHealth == <<"/", "u", "/", "h", "e", "a", "l", "t", "h">>

TemplateU == <<"/", "u", "/", "{", "k", "}">>

TemplateP == <<"/", "p">>

ServerV == <<"h", "t", "t", "p", "s", ":", "/", "/", "a", "/", "v">>

ServerRel == <<"/", "v", "/">>

MGet == <<"g", "e", "t">>

MGetMixed == <<"G", "e", "t">>

MPost == <<"p", "o", "s", "t">>

MExt == <<"x", "-", "e">>

HealthSuffix == <<"/", "h", "e", "a", "l", "t", "h">>

\* ------------------------------------------------------------------------
\* Inputs: OpenAPI documents and what a spec reference may deliver
\* ------------------------------------------------------------------------
Server(url) == [URL |-> url]

OpenAPISpec(servers, paths) == [Servers |-> servers, Paths |-> paths]

\* servers: [{url: https://a/v}], paths: {/u/{k}: {get}}
DocV == OpenAPISpec(<<Server(ServerV)>>, (TemplateU :> {MGet}))

\* no servers; paths: {/u/{k}: {Get, x-e}, /p: {}, /u/health: {get}}
DocRoot ==
  OpenAPISpec(<<>>, (TemplateU :> {MGetMixed, MExt}) @@ (TemplateP :> {})
                    @@ (PathUHealth :> {MGet}))

\* servers: [{url: /v/}, {url: https://a/v}]; paths: {/u/{k}: {post, x-e}, /p: {x-e}}
DocRel ==
  OpenAPISpec(<<Server(ServerRel), Server(ServerV)>>,
              (TemplateU :> {MPost, MExt}) @@ (TemplateP :> {MExt}))

EmptyDoc == OpenAPISpec(<<>>, <<>>)

Docs == {DocV, DocRoot, DocRel}

Source(ok, valid, doc) == [ok |-> ok, valid |-> valid, doc |-> doc]

Unreachable == Source(FALSE, FALSE, EmptyDoc)

Unparsable == Source(TRUE, FALSE, EmptyDoc)

Sources == {Unreachable, Unparsable} \cup {Source(TRUE, TRUE, d) : d \in Docs}

\* ------------------------------------------------------------------------
\* Inputs: gateway configurations
\* ------------------------------------------------------------------------
Backend(pattern, method, host) ==
  [URLPattern |-> pattern, Method |-> method, Host |-> host]

\* an endpoint has no backend, one backend, or fans out to two
BackendLists ==
  { <<>>,
    <<Backend(PathU, <<>>, <<HttpsA>>)>>,
    <<Backend(PathVU, <<>>, <<HttpsB, HttpsA>>), Backend(PathUHealth, <<>>, <<HttpsA>>)>>,
    <<Backend(PathHealth, <<>>, <<BareB>>), Backend(PathU, <<>>, <<BadHost>>)>>,
    <<Backend(PathVU, MPost, <<HttpsAPort>>), Backend(PathU, <<>>, <<>>)>> }

Endpoint(path, method, backend) ==
  [Path |-> path, Method |-> method, Backend |-> backend]

Endpoints == {Endpoint("/e", MGetMixed, bl) : bl \in BackendLists}

SeqsUpTo(S, n) == UNION {[1..k -> S] : k \in 0..n}

ContractSpec(url) == [OpenAPIURL |-> url]

ContractSpecChoices ==
  {[name \in names |-> ContractSpec("spec-url")] : names \in SUBSET {HostA, HostB}}

KrakenDConfig(endpoints, contractSpecs) ==
  [Endpoints |-> endpoints, ContractSpecs |-> contractSpecs]

Configs ==
  {KrakenDConfig(es, cs) : es \in SeqsUpTo(Endpoints, MaxEndpoints),
                           cs \in ContractSpecChoices}

NoConfig == KrakenDConfig(<<>>, <<>>)

\* -override values: unset, well-formed, and the three malformed shapes
OverrideValues ==
  { <<>>,
    <<"a", "=", "f">>,
    <<"a">>,
    <<"=", "f">>,
    <<"a", "=">> }

ServiceValues == {<<>>, HostA}

\* ------------------------------------------------------------------------
\* State
\* ------------------------------------------------------------------------
VARIABLES
  pc,             \* position in main
  override,       \* flag -override
  service,        \* flag -service
  warnUncovered,  \* flag -warn-uncovered
  includeHealth,  \* flag -include-health
  overrideHost,
  overridePath,
  readErr,        \* os.ReadFile(*configPath) failed
  parseErr,       \* json.Unmarshal of the config failed
  cfg,
  pending,        \* keys of cfg.ContractSpecs the range loop has not visited
  fetched,        \* per spec visited and not skipped: where it came from, what came
  specOps,
  specAllPaths,
  routes,
  healthSkipped,
  idx,            \* position of the validation loop in routes
  passed,
  failed,
  coveredPaths,
  report,         \* the PASS/FAIL lines on standard output, in order
  warnings,       \* the WARN lines on standard output
  stderr,         \* the fatal error printed, "" when none
  exitCode,       \* -1 while main runs
  np,             \* normalizePath: the argument
  nq,             \* normalizePath: the result
  nqq             \* normalizePath applied to the result

vars ==
  <<pc, override, service, warnUncovered, includeHealth, overrideHost, overridePath,
    readErr, parseErr, cfg, pending, fetched, specOps, specAllPaths, routes,
    healthSkipped, idx, passed, failed, coveredPaths, report, warnings, stderr,
    exitCode, np, nq, nqq>>

flagVars == <<override, service, warnUncovered, includeHealth>>

normVars == <<np, nq, nqq>>

loadVars == <<pending, fetched, specOps, specAllPaths>>

validationVars == <<routes, healthSkipped, idx, passed, failed, coveredPaths,
                    report, warnings>>

Init ==
  /\ pc = "parse_override"
  /\ override \in OverrideValues
  /\ service \in ServiceValues
  /\ warnUncovered \in BOOLEAN
  /\ includeHealth \in BOOLEAN
  /\ overrideHost = <<>>
  /\ overridePath = <<>>
  /\ readErr = FALSE
  /\ parseErr = FALSE
  /\ cfg = NoConfig
  /\ pending = {}
  /\ fetched = <<>>
  /\ specOps = <<>>
  /\ specAllPaths = <<>>
  /\ routes = <<>>
  /\ healthSkipped = 0
  /\ idx = 1
  /\ passed = 0
  /\ failed = 0
  /\ coveredPaths = <<>>
  /\ report = <<>>
  /\ warnings = {}
  /\ stderr = ""
  /\ exitCode = 0 - 1
  /\ np = <<>>
  /\ nq = <<>>
  /\ nqq = <<>>

\* os.Exit(code) after a message on standard error
Exit(code, msg) ==
  /\ pc' = "done"
  /\ exitCode' = code
  /\ stderr' = msg

\* ------------------------------------------------------------------------
\* main, lines 79-106: the -override flag and the configuration
\* ------------------------------------------------------------------------
overrideMalformed(parts) ==
  \/ Len(parts) # 2
  \/ parts[1] = <<>>
  \/ parts[2] = <<>>

ParseOverride ==
  /\ pc = "parse_override"
  /\ IF override # <<>>
     THEN LET parts == SplitN2(override)
          IN IF overrideMalformed(parts)
             THEN /\ Exit(2, "-override must be in format hostname=/path/to/spec.yaml")
                  /\ UNCHANGED <<overrideHost, overridePath>>
             ELSE /\ overrideHost' = parts[1]
                  /\ overridePath' = parts[2]
                  /\ pc' = "read_config"
                  /\ UNCHANGED <<exitCode, stderr>>
     ELSE /\ pc' = "read_config"
          /\ UNCHANGED <<overrideHost, overridePath, exitCode, stderr>>
  /\ UNCHANGED <<flagVars, readErr, parseErr, cfg, loadVars, validationVars, normVars>>

ReadConfig ==
  /\ pc = "read_config"
  /\ \E err \in BOOLEAN :
       /\ readErr' = err
       /\ IF err
          THEN Exit(2, "Error reading config")
          ELSE /\ pc' = "parse_config"
               /\ UNCHANGED <<exitCode, stderr>>
  /\ UNCHANGED <<flagVars, overrideHost, overridePath, parseErr, cfg, loadVars,
                 validationVars, normVars>>

ParseConfig ==
  /\ pc = "parse_config"
  /\ \/ /\ parseErr' = TRUE
        /\ Exit(2, "Error parsing config")
        /\ UNCHANGED cfg
     \/ \E c \in Configs :
          /\ cfg' = c
          /\ pc' = "check_specs"
          /\ UNCHANGED <<parseErr, exitCode, stderr>>
  /\ UNCHANGED <<flagVars, overrideHost, overridePath, readErr, loadVars,
                 validationVars, normVars>>

noContractSpecsNever(c) == FALSE

noContractSpecs(c) == Cardinality(DOMAIN c.ContractSpecs) = 0

CheckContractSpecs ==
  /\ pc = "check_specs"
  /\ IF noContractSpecs(cfg)
     THEN /\ Exit(2, "no x-contract-specs found in config")
          /\ UNCHANGED pending
     ELSE /\ pc' = "load_specs"
          /\ pending' = DOMAIN cfg.ContractSpecs
          /\ UNCHANGED <<exitCode, stderr>>
  /\ UNCHANGED <<flagVars, overrideHost, overridePath, readErr, parseErr, cfg,
                 fetched, specOps, specAllPaths, validationVars, normVars>>

\* ------------------------------------------------------------------------
\* main, lines 111-142: one iteration of the loop over cfg.ContractSpecs
\* (Go visits the keys of a map in an unspecified order)
\* ------------------------------------------------------------------------
specSkipped(name) == service # <<>> /\ name # service

Fetched(from, src) == [from |-> from, src |-> src]

loadFailedNever(res) == FALSE

loadFailed(res) == res.err

LoadSpec ==
  /\ pc = "load_specs"
  /\ \E name \in pending :
       /\ pending' = pending \ {name}
       /\ IF specSkipped(name)
          THEN UNCHANGED <<pc, fetched, specOps, specAllPaths, exitCode, stderr>>
          ELSE \E src \in Sources :
                 LET from == IF overrideHost = name THEN "file" ELSE "url"
                     res  == fetchAndParseSpec(src)
                 IN /\ fetched' = (name :> Fetched(from, src)) @@ fetched
                    /\ IF loadFailed(res)
                       THEN /\ Exit(2, "FAILED")
                            /\ UNCHANGED <<specOps, specAllPaths>>
                       ELSE /\ specOps' = (name :> res.ops) @@ specOps
                            /\ specAllPaths' = (name :> res.allPaths) @@ specAllPaths
                            /\ UNCHANGED <<pc, exitCode, stderr>>
  /\ UNCHANGED <<flagVars, overrideHost, overridePath, readErr, parseErr, cfg,
                 validationVars, normVars>>

\* ------------------------------------------------------------------------
\* main, lines 144-173: route extraction
\* ------------------------------------------------------------------------
backendRoute(method, path, hostname) ==
  [method |-> method, path |-> path, hostname |-> hostname]

\* the (endpoint, backend) pairs in the order the two nested loops visit them
RECURSIVE BackendPairs(_, _)
BackendPairs(eps, i) ==
  IF i > Len(eps) THEN <<>>
  ELSE [j \in 1..Len(eps[i].Backend) |-> [ep |-> eps[i], b |-> eps[i].Backend[j]]]
       \o BackendPairs(eps, i + 1)

healthFilteredAlways(b) == HasSuffix(b.URLPattern, HealthSuffix)

healthFiltered(b) == ~includeHealth /\ HasSuffix(b.URLPattern, HealthSuffix)

resolveHostname(b) ==
  IF Len(b.Host) > 0 THEN extractHostname(b.Host[1]) ELSE <<>>

serviceFilteredNever(hostname) == FALSE

serviceFiltered(hostname) == service # <<>> /\ hostname # service

resolveMethod(ep, b) == IF b.Method = <<>> THEN ep.Method ELSE b.Method

routeOf(ep, b) ==
  backendRoute(ToUpper(resolveMethod(ep, b)), b.URLPattern, resolveHostname(b))

Extraction(rs, skipped) == [routes |-> rs, healthSkipped |-> skipped]

RECURSIVE ExtractFrom(_, _)
ExtractFrom(pairs, k) ==
  IF k > Len(pairs) THEN Extraction(<<>>, 0)
  ELSE LET rest == ExtractFrom(pairs, k + 1)
           ep   == pairs[k].ep
           b    == pairs[k].b
       IN IF healthFiltered(b)
          THEN Extraction(rest.routes, rest.healthSkipped + 1)
          ELSE IF serviceFiltered(resolveHostname(b))
          THEN rest
          ELSE Extraction(<<routeOf(ep, b)>> \o rest.routes, rest.healthSkipped)

extractRoutes(c) == ExtractFrom(BackendPairs(c.Endpoints, 1), 1)

\* lines 144-188: the extraction loops, the tallies and the coverage maps
ExtractRoutes ==
  /\ pc = "load_specs"
  /\ pending = {}
  /\ LET x == extractRoutes(cfg)
     IN /\ routes' = x.routes
        /\ healthSkipped' = x.healthSkipped
  /\ passed' = 0
  /\ failed' = 0
  /\ coveredPaths' = [name \in DOMAIN specOps |-> {}]
  /\ idx' = 1
  /\ pc' = "validate"
  /\ UNCHANGED <<flagVars, overrideHost, overridePath, readErr, parseErr, cfg,
                 loadVars, report, warnings, stderr, exitCode, normVars>>

\* ------------------------------------------------------------------------
\* main, lines 190-210: one iteration of the validation loop
\* ------------------------------------------------------------------------
Line(outcome, r, reason) ==
  [outcome |-> outcome, method |-> r.method, path |-> r.path,
   hostname |-> r.hostname, reason |-> reason]

routeKeyRawPath(r) == Key(r.method, r.path)

routeKey(r) == Key(r.method, normalizePath(r.path))

hasSpec(hostname) == hostname \in DOMAIN specOps

ValidateRoute ==
  /\ pc = "validate"
  /\ idx <= Len(routes)
  /\ LET r == routes[idx]
     IN IF ~hasSpec(r.hostname)
        THEN /\ report' = Append(report, Line("FAIL", r, "no spec configured for hostname"))
             /\ failed' = failed + 1
             /\ UNCHANGED <<passed, coveredPaths>>
        ELSE LET ops            == specOps[r.hostname]
                 normalizedPath == normalizePath(r.path)
                 key            == routeKey(r)
             IN IF key \in ops
                THEN /\ report' = Append(report, Line("PASS", r, ""))
                     /\ passed' = passed + 1
                     /\ coveredPaths' =
                          [coveredPaths EXCEPT ![r.hostname] = @ \cup {normalizedPath}]
                     /\ UNCHANGED failed
                ELSE /\ report' = Append(report, Line("FAIL", r, "not found in OpenAPI spec"))
                     /\ failed' = failed + 1
                     /\ UNCHANGED <<passed, coveredPaths>>
  /\ idx' = idx + 1
  /\ UNCHANGED <<pc, flagVars, overrideHost, overridePath, readErr, parseErr, cfg,
                 loadVars, routes, healthSkipped, warnings, stderr, exitCode, normVars>>

\* ------------------------------------------------------------------------
\* main, lines 212-223: warnings for uncovered spec paths
\* ------------------------------------------------------------------------
Warn(path, name) == [path |-> path, name |-> name]

uncovered(c) ==
  UNION { {Warn(path, name) : path \in specAllPaths[name] \ c[name]} :
          name \in DOMAIN specAllPaths }

WarnUncovered ==
  /\ pc = "validate"
  /\ idx > Len(routes)
  /\ warnings' = IF warnUncovered THEN uncovered(coveredPaths) ELSE {}
  /\ pc' = "result"
  /\ UNCHANGED <<flagVars, overrideHost, overridePath, readErr, parseErr, cfg,
                 loadVars, routes, healthSkipped, idx, passed, failed, coveredPaths,
                 report, stderr, exitCode, normVars>>

\* ------------------------------------------------------------------------
\* main, lines 225-231: the result line and the exit code
\* ------------------------------------------------------------------------
resultCodeWarn(n) == IF n > 0 \/ warnings # {} THEN 1 ELSE 0

resultCode(n) == IF n > 0 THEN 1 ELSE 0

Result ==
  /\ pc = "result"
  /\ exitCode' = resultCode(failed)
  /\ pc' = "done"
  /\ UNCHANGED <<flagVars, overrideHost, overridePath, readErr, parseErr, cfg,
                 loadVars, validationVars, stderr, normVars>>

Next ==
  \/ ParseOverride
  \/ ReadConfig
  \/ ParseConfig
  \/ CheckContractSpecs
  \/ LoadSpec
  \/ ExtractRoutes
  \/ ValidateRoute
  \/ WarnUncovered
  \/ Result

Spec == Init /\ [][Next]_vars

\* ------------------------------------------------------------------------
\* normalizePath on its own: every string over PathChars up to MaxLen
\* ------------------------------------------------------------------------
PathChars == {"/", "{", "}", "a", "_"}

mainVars ==
  <<override, service, warnUncovered, includeHealth, overrideHost, overridePath,
    readErr, parseErr, cfg, pending, fetched, specOps, specAllPaths, routes,
    healthSkipped, idx, passed, failed, coveredPaths, report, warnings, stderr,
    exitCode>>

InitNorm ==
  /\ pc = "norm_input"
  /\ np \in SeqsUpTo(PathChars, MaxLen)
  /\ nq = <<>>
  /\ nqq = <<>>
  /\ override = <<>>
  /\ service = <<>>
  /\ warnUncovered = FALSE
  /\ includeHealth = FALSE
  /\ overrideHost = <<>>
  /\ overridePath = <<>>
  /\ readErr = FALSE
  /\ parseErr = FALSE
  /\ cfg = NoConfig
  /\ pending = {}
  /\ fetched = <<>>
  /\ specOps = <<>>
  /\ specAllPaths = <<>>
  /\ routes = <<>>
  /\ healthSkipped = 0
  /\ idx = 1
  /\ passed = 0
  /\ failed = 0
  /\ coveredPaths = <<>>
  /\ report = <<>>
  /\ warnings = {}
  /\ stderr = ""
  /\ exitCode = 0 - 1

Normalize ==
  /\ pc = "norm_input"
  /\ nq' = normalizePath(np)
  /\ pc' = "norm_once"
  /\ UNCHANGED <<np, nqq, mainVars>>

NormalizeAgain ==
  /\ pc = "norm_once"
  /\ nqq' = normalizePath(nq)
  /\ pc' = "norm_twice"
  /\ UNCHANGED <<np, nq, mainVars>>

NextNorm ==
  \/ Normalize
  \/ NormalizeAgain

SpecNorm == InitNorm /\ [][NextNorm]_vars

\* ------------------------------------------------------------------------
\* Vocabulary of the properties
\* ------------------------------------------------------------------------
Finished == pc = "done"

\* main got past the loading of the specs
Extracted == pc \in {"validate", "result"} \/ (pc = "done" /\ exitCode \in {0, 1})

\* the value of -override is not hostname=path
OverrideIsMalformed ==
  /\ override # <<>>
  /\ LET eq == IndexFrom(override, "=", 1)
     IN eq = 0 \/ eq = 1 \/ eq = Len(override)

FailedLoads == {n \in DOMAIN fetched : ~fetched[n].src.ok \/ ~fetched[n].src.valid}

LoadedNames == DOMAIN fetched \ FailedLoads

\* a usage, configuration or spec-load error occurred in this run
LoadError ==
  \/ OverrideIsMalformed
  \/ readErr
  \/ parseErr
  \/ DOMAIN cfg.ContractSpecs = {}
  \/ FailedLoads # {}

HasFail == \E i \in 1..Len(report) : report[i].outcome = "FAIL"

HasPass == \E i \in 1..Len(report) : report[i].outcome = "PASS"

AllPairs == BackendPairs(cfg.Endpoints, 1)

IsHealth(b) == HasSuffix(b.URLPattern, HealthSuffix)

\* the operations a document documents, as (METHOD, full path template) pairs
DocumentedOperations(doc) ==
  { <<ToUpper(m), basePathOf(doc) \o t>> :
      <<m, t>> \in { mt \in UNION { {<<m2, t2>> : m2 \in doc.Paths[t2]} : t2 \in DOMAIN doc.Paths } :
                     ToLower(mt[1]) \in httpMethods } }

DocumentedPaths(doc) == { normalizePath(basePathOf(doc) \o t) : t \in DOMAIN doc.Paths }

DocOf(h) == fetched[h].src.doc

\* C1: when main has ended, the exit code is 2 exactly when a usage, config or
\* spec-load error occurred, otherwise 1 exactly when some route line is FAIL,
\* otherwise 0; warnings and -warn-uncovered play no part
C1_ExitCode ==
  Finished =>
    exitCode = (IF LoadError THEN 2 ELSE IF HasFail THEN 1 ELSE 0)

C1_Witness ==
  /\ Finished
  /\ exitCode = 0
  /\ warnUncovered
  /\ warnings # {}
  /\ HasPass

\* C2: every validated route has exactly one line, whose outcome is decided by
\* the route's hostname h and key K: FAIL "no spec configured for hostname"
\* when h has no loaded spec, PASS when K is documented for h, FAIL "not found
\* in OpenAPI spec" otherwise; a hostname without a loaded spec gets no warning
C2_Outcome ==
  /\ Extracted => Len(report) = idx - 1 /\ idx - 1 <= Len(routes)
  /\ (Extracted /\ pc # "validate") => Len(report) = Len(routes)
  /\ \A i \in 1..Len(report) :
       LET r == routes[i]
           l == report[i]
           K == r.method \o <<" ">> \o normalizePath(r.path)
       IN /\ l.method = r.method /\ l.path = r.path /\ l.hostname = r.hostname
          /\ IF r.hostname \notin LoadedNames
             THEN l.outcome = "FAIL" /\ l.reason = "no spec configured for hostname"
             ELSE IF K \in specOps[r.hostname]
             THEN l.outcome = "PASS"
             ELSE l.outcome = "FAIL" /\ l.reason = "not found in OpenAPI spec"
  /\ \A w \in warnings : w.name \in LoadedNames

C2_Witness ==
  /\ Finished
  /\ \E i \in 1..Len(report) : report[i].outcome = "PASS"
  /\ \E i \in 1..Len(report) : report[i].reason = "no spec configured for hostname"
  /\ \E i \in 1..Len(report) : report[i].reason = "not found in OpenAPI spec"

\* the route at position i matches a documented operation of its hostname's
\* document when the base path is left aside / is taken on the spec side
MatchesTemplate(i) ==
  /\ routes[i].hostname \in LoadedNames
  /\ \E mt \in UNION { {<<m, t>> : m \in DocOf(routes[i].hostname).Paths[t]} :
                       t \in DOMAIN DocOf(routes[i].hostname).Paths } :
       /\ ToLower(mt[1]) \in httpMethods
       /\ ToUpper(mt[1]) = routes[i].method
       /\ normalizePath(mt[2]) = normalizePath(routes[i].path)

MatchesFullPath(i) ==
  /\ routes[i].hostname \in LoadedNames
  /\ \E op \in DocumentedOperations(DocOf(routes[i].hostname)) :
       /\ op[1] = routes[i].method
       /\ normalizePath(op[2]) = normalizePath(routes[i].path)

\* the example: one endpoint GET with the backend /u/{i} on https://a, and the
\* document with servers[0].url = https://a/v and paths {/u/{k}: {get}} for a
ExampleRun ==
  /\ cfg.Endpoints = <<Endpoint("/e", MGetMixed, <<Backend(PathU, <<>>, <<HttpsA>>)>>)>>
  /\ DOMAIN cfg.ContractSpecs = {HostA}
  /\ HostA \in LoadedNames
  /\ DocOf(HostA) = DocV

\* C3 as stated: a route whose url_pattern equals a documented path template
\* up to parameter names, with the same method, is PASS whatever base path
\* servers[0].url supplies, and the example run ends with PASS and exit code 0
C3_AsStated ==
  /\ \A i \in 1..Len(report) : MatchesTemplate(i) => report[i].outcome = "PASS"
  /\ (Finished /\ ExampleRun) => (report[1].outcome = "PASS" /\ exitCode = 0)

\* C3 amended: the base path is applied on the spec side only: a route of a
\* hostname with a loaded spec is PASS exactly when its method and url_pattern
\* equal, up to parameter names, a documented method and base path + template;
\* the example run ends with FAIL "not found in OpenAPI spec" and exit code 1
C3_BasePathOnSpecSide ==
  /\ \A i \in 1..Len(report) :
       routes[i].hostname \in LoadedNames =>
         (report[i].outcome = "PASS" <=> MatchesFullPath(i))
  /\ (Finished /\ ExampleRun) =>
       /\ Key(routes[1].method, normalizePath(routes[1].path))
            # Key(MGet, normalizePath(basePathOf(DocV) \o TemplateU))
       /\ report[1].outcome = "FAIL"
       /\ report[1].reason = "not found in OpenAPI spec"
       /\ exitCode = 1

C3_Witness ==
  /\ Finished
  /\ \E i \in 1..Len(report) :
       /\ report[i].outcome = "PASS"
       /\ basePathOf(DocOf(routes[i].hostname)) # <<>>
       /\ routes[i].path = PathVU

\* C4 as stated: a run whose configuration was read and parsed, whose spec
\* loads did not fail and that extracted no route exits 0, the empty
\* configuration (no endpoints, no contract specs) included
C4_AsStated ==
  (/\ Finished
   /\ ~OverrideIsMalformed /\ ~readErr /\ ~parseErr /\ FailedLoads = {}
   /\ routes = <<>>)
    => exitCode = 0

\* C4 amended: a run that reaches route extraction and extracts no route
\* (no endpoints, endpoints without backends, or every backend filtered out)
\* exits 0; a configuration without contract specs exits 2 before extraction,
\* also when it has no endpoints
C4_ZeroRoutes ==
  /\ (Finished /\ ~LoadError /\ routes = <<>>) => (exitCode = 0 /\ report = <<>>)
  /\ (Finished /\ ~OverrideIsMalformed /\ ~readErr /\ ~parseErr
        /\ DOMAIN cfg.ContractSpecs = {})
       => (exitCode = 2 /\ stderr = "no x-contract-specs found in config")

C4_Witness ==
  /\ Finished
  /\ exitCode = 0
  /\ routes = <<>>
  /\ Len(AllPairs) > 0

\* C5: a usage, configuration or spec-load failure ends the run with exit code
\* 2 at that step: at most one load failed, nothing is extracted, no route or
\* warning line exists; and routes are extracted and validated only when every
\* spec that is to be loaded (all, or the one -service names) was loaded
C5_LoadFailuresHalt ==
  /\ (OverrideIsMalformed /\ pc # "parse_override") =>
       (Finished /\ exitCode = 2 /\ cfg = NoConfig /\ fetched = <<>>)
  /\ (readErr \/ parseErr) =>
       (Finished /\ exitCode = 2 /\ cfg = NoConfig /\ fetched = <<>>)
  /\ (DOMAIN cfg.ContractSpecs = {} /\ pc \notin {"parse_override", "read_config",
                                                   "parse_config", "check_specs"}) =>
       (Finished /\ exitCode = 2 /\ fetched = <<>>)
  /\ FailedLoads # {} =>
       (Finished /\ exitCode = 2 /\ Cardinality(FailedLoads) = 1)
  /\ exitCode = 2 =>
       (Finished /\ routes = <<>> /\ report = <<>> /\ warnings = {} /\ passed + failed = 0)
  /\ (Extracted \/ report # <<>> \/ warnings # {}) =>
       /\ ~LoadError
       /\ \A n \in DOMAIN cfg.ContractSpecs :
            (service = <<>> \/ n = service) => (n \in LoadedNames /\ n \in DOMAIN specOps)

C5_Witness ==
  /\ Finished
  /\ exitCode = 2
  /\ FailedLoads # {}
  /\ \E n \in pending : service = <<>> \/ n = service
  /\ Len(AllPairs) > 0

\* C6: with -service X only the spec of X is fetched and loaded, every
\* extracted route, every route line and every warning is of hostname X, the
\* tallies count the route lines only, and a skipped spec is never fetched
C6_ServiceFilter ==
  service # <<>> =>
    /\ DOMAIN fetched \subseteq {service}
    /\ DOMAIN specOps \subseteq {service}
    /\ DOMAIN specAllPaths \subseteq {service}
    /\ \A i \in 1..Len(routes) : routes[i].hostname = service
    /\ routes # <<>> =>
         LET pairs == AllPairs
         IN Len(routes) <=
              Cardinality({k \in 1..Len(pairs) :
                             (IF Len(pairs[k].b.Host) > 0
                              THEN extractHostname(pairs[k].b.Host[1])
                              ELSE <<>>) = service})
    /\ \A i \in 1..Len(report) : report[i].hostname = service
    /\ \A w \in warnings : w.name = service
    /\ passed + failed = Len(report)

C6_Witness ==
  /\ service = HostA
  /\ Finished
  /\ exitCode = 0
  /\ HostB \in DOMAIN cfg.ContractSpecs
  /\ HasPass
  /\ \E k \in 1..Len(AllPairs) :
       ~IsHealth(AllPairs[k].b) /\ resolveHostname(AllPairs[k].b) # service

\* the extraction loop with the two filters in the other order: the -service
\* filter first, the health filter second
RECURSIVE ExtractServiceFirstFrom(_, _)
ExtractServiceFirstFrom(pairs, k) ==
  IF k > Len(pairs) THEN Extraction(<<>>, 0)
  ELSE LET rest == ExtractServiceFirstFrom(pairs, k + 1)
           ep   == pairs[k].ep
           b    == pairs[k].b
       IN IF service # <<>> /\ resolveHostname(b) # service
          THEN rest
          ELSE IF ~includeHealth /\ IsHealth(b)
          THEN Extraction(rest.routes, rest.healthSkipped + 1)
          ELSE Extraction(<<routeOf(ep, b)>> \o rest.routes, rest.healthSkipped)

ServiceFirst == ExtractServiceFirstFrom(AllPairs, 1)

HealthCount(pairs) == Cardinality({k \in 1..Len(pairs) : IsHealth(pairs[k].b)})

\* C7 as stated: the extracted routes and the skipped tally are the same
\* whichever of the two filters is applied first
C7_AsStated ==
  Extracted =>
    LET other == ServiceFirst
    IN /\ routes = other.routes
       /\ healthSkipped = other.healthSkipped

\* C7 amended: without -include-health no extracted route, route line or
\* covered path is of a backend whose url_pattern ends with /health, and the
\* skipped tally counts every such backend of the configuration, those of
\* hostnames other than -service included, because the health filter runs
\* first; with -include-health the tally is 0 and such backends are extracted
\* like the others; the extracted routes, not the tally, are the same
\* whichever filter is applied first
C7_HealthFilter ==
  Extracted =>
    LET pairs == AllPairs
    IN /\ routes = ExtractServiceFirstFrom(pairs, 1).routes
       /\ (~includeHealth =>
             /\ healthSkipped = HealthCount(pairs)
             /\ \A i \in 1..Len(routes) : ~HasSuffix(routes[i].path, HealthSuffix)
             /\ \A i \in 1..Len(report) : ~HasSuffix(report[i].path, HealthSuffix)
             /\ \A h \in DOMAIN coveredPaths :
                  \A q \in coveredPaths[h] : ~HasSuffix(q, HealthSuffix)
             /\ passed + failed <= Len(pairs) - HealthCount(pairs))
       /\ (includeHealth =>
             /\ healthSkipped = 0
             /\ Len(routes) =
                  Cardinality({k \in 1..Len(pairs) :
                                 service = <<>> \/ resolveHostname(pairs[k].b) = service}))

C7_Witness ==
  /\ Finished
  /\ ~includeHealth
  /\ service = HostA
  /\ healthSkipped > ServiceFirst.healthSkipped
  /\ Len(report) > 0

\* C8: after validation, with -warn-uncovered the warnings are exactly the
\* pairs (h, p) with h a hostname with a loaded spec, p a normalized base
\* path + template of its document (with or without a recognised method)
\* and no PASS line of hostname h on normalized path p; without the flag
\* there is no warning
C8_Warnings ==
  (pc = "result" \/ (Finished /\ exitCode \in {0, 1})) =>
    warnings =
      (IF warnUncovered
       THEN { w \in UNION { {Warn(q, h) : q \in DocumentedPaths(DocOf(h))} :
                            h \in LoadedNames } :
              ~\E i \in 1..Len(report) :
                  /\ report[i].outcome = "PASS"
                  /\ report[i].hostname = w.name
                  /\ normalizePath(report[i].path) = w.path }
       ELSE {})

C8_Witness ==
  /\ Finished
  /\ warnUncovered
  /\ \E w \in warnings :
       \E i \in 1..Len(report) :
         /\ report[i].outcome = "FAIL"
         /\ report[i].hostname = w.name
         /\ normalizePath(report[i].path) = w.path
  /\ \E h \in LoadedNames :
       \E q \in DocumentedPaths(DocOf(h)) :
         /\ Warn(q, h) \notin warnings
         /\ \E i \in 1..Len(report) :
              report[i].method = ToUpper(MPost) /\ normalizePath(report[i].path) = q
  /\ Warn(normalizePath(basePathOf(DocRel) \o TemplateP), HostA) \in warnings

\* the pieces of a path between "/" separators
SegmentCount(p) == Cardinality({i \in 1..Len(p) : p[i] = "/"}) + 1

\* C9: normalizePath(p) has as many path segments as p, for every string p
C9_SegmentsPreserved ==
  pc = "norm_once" => SegmentCount(nq) = SegmentCount(np)

\* C10: normalizePath(normalizePath(p)) = normalizePath(p), for every string p
C10_Idempotent ==
  pc = "norm_twice" => nqq = nq

C10_Witness ==
  /\ pc = "norm_twice"
  /\ nq # np
  /\ Cardinality({i \in 1..Len(np) : np[i] = "{"}) > 1
  /\ Cardinality({i \in 1..Len(nq) : nq[i] = "}"}) > 1

====
